---- MODULE Spec2Model ----
(***************************************************************************)
(* Model of the ebay-tracker Flask application (src/app.py, src/models.py) *)
(* centred on the /reports view and on the item write handlers that change *)
(* the rows it reads.                                                       *)
(*                                                                          *)
(* Conventions                                                              *)
(*   - a Python str is a sequence of one-character strings;                 *)
(*   - a datetime.date is its proleptic Gregorian ordinal                   *)
(*     (date.toordinal()), so date comparison is integer comparison;        *)
(*   - Python None and SQL NULL are the empty optional None;                *)
(*   - money is counted in whole dollars (the inputs carry no fraction).    *)
(*   - the items table carries the source_location column that              *)
(*     create_app adds to it (src/app.py lines 127-128).                    *)
(***************************************************************************)
EXTENDS Integers, Sequences, FiniteSets, TLC

\* An optional value (Python None, SQL NULL) is a set of at most one element.
None == {}

Some(x) == {x}

Val(o) == CHOOSE x \in o : TRUE

(***************************************************************************)
(* Strings                                                                  *)
(***************************************************************************)

\* The characters that occur in the inputs, in code point order.
CharSeq ==
  << " ", "$", ",", "-",
     "0", "1", "2", "3", "4", "5", "6", "7", "8", "9",
     "A", "B", "C", "D", "E", "F", "G", "H", "I", "J", "K", "L", "M",
     "N", "O", "P", "Q", "R", "S", "T", "U", "V", "W", "X", "Y", "Z",
     "_",
     "a", "b", "c", "d", "e", "f", "g", "h", "i", "j", "k", "l", "m",
     "n", "o", "p", "q", "r", "s", "t", "u", "v", "w", "x", "y", "z" >>

Chars == {CharSeq[i] : i \in 1..Len(CharSeq)}

\* ord(c), up to the gaps between the characters in use
CodeOf == [c \in Chars |-> CHOOSE i \in 1..Len(CharSeq) : CharSeq[i] = c]

Code(c) == CodeOf[c]

DigitChars == << "0", "1", "2", "3", "4", "5", "6", "7", "8", "9" >>

IsDigit(c) == Code(c) >= Code("0") /\ Code(c) <= Code("9")

DigitVal(c) == Code(c) - Code("0")

IsUpper(c) == Code(c) >= Code("A") /\ Code(c) <= Code("Z")

\* str.lower()
Lower(s) ==
  [i \in 1..Len(s) |->
     IF IsUpper(s[i]) THEN CharSeq[Code(s[i]) - Code("A") + Code("a")] ELSE s[i]]

\* str.strip(): leading and trailing white space removed
StripTo(s, idx) ==
  IF idx = {} THEN << >>
  ELSE SubSeq(s, CHOOSE i \in idx : \A j \in idx : i <= j,
                 CHOOSE i \in idx : \A j \in idx : j <= i)

Strip(s) == StripTo(s, {i \in 1..Len(s) : s[i] # " "})

\* Python's str ordering: s < t
StrLess(s, t) ==
  \E k \in 1..(Len(t)) :
     /\ \A j \in 1..(k - 1) : j <= Len(s) /\ s[j] = t[j]
     /\ k - 1 <= Len(s)
     /\ \/ k = Len(s) + 1
        \/ k <= Len(s) /\ Code(s[k]) < Code(t[k])

AllDigits(s) == \A i \in 1..Len(s) : IsDigit(s[i])

\* value of a string of digits
RECURSIVE DigitsVal(_)
DigitsVal(s) ==
  IF Len(s) = 0 THEN 0
  ELSE 10 * DigitsVal(SubSeq(s, 1, Len(s) - 1)) + DigitVal(s[Len(s)])

\* "%0<w>d" % n, for n >= 0
RECURSIVE ZeroPad(_, _)
ZeroPad(n, w) ==
  IF w = 0 THEN << >>
  ELSE Append(ZeroPad(n \div 10, w - 1), DigitChars[(n % 10) + 1])

(***************************************************************************)
(* Dates                                                                    *)
(***************************************************************************)

IsLeap(y) == (y % 4 = 0) /\ ((y % 100 # 0) \/ (y % 400 = 0))

DaysInMonth(y, m) ==
  IF m = 2 THEN (IF IsLeap(y) THEN 29 ELSE 28)
  ELSE IF m \in {4, 6, 9, 11} THEN 30 ELSE 31

DaysBeforeYear(y) ==
  LET p == y - 1 IN p * 365 + (p \div 4) - (p \div 100) + (p \div 400)

\* days before the first of month m in a year that is not a leap year
DaysBeforeMonthTable == << 0, 31, 59, 90, 120, 151, 181, 212, 243, 273, 304, 334 >>

DaysBeforeMonth(y, m) ==
  DaysBeforeMonthTable[m] + (IF m > 2 /\ IsLeap(y) THEN 1 ELSE 0)

\* date(y, m, d).toordinal()
Ymd(y, m, d) == DaysBeforeYear(y) + DaysBeforeMonth(y, m) + d

\* date.fromordinal(n).year: the 400, 100, 4 and 1 year cycles before day n
YearOf(n) ==
  LET n0   == n - 1
      n400 == n0 \div 146097
      r400 == n0 % 146097
      n100 == r400 \div 36524
      r100 == r400 % 36524
      n4   == r100 \div 1461
      r4   == r100 % 1461
      n1   == r4 \div 365
      y    == n400 * 400 + n100 * 100 + n4 * 4 + n1 + 1
  IN  IF n1 = 4 \/ n100 = 4 THEN y - 1 ELSE y

\* the month of day number doy (from 0) of year y
MonthInYear(doy, y) ==
  IF DaysBeforeMonth(y, (doy + 50) \div 32) > doy
    THEN ((doy + 50) \div 32) - 1
    ELSE (doy + 50) \div 32

MonthOf(n) == MonthInYear(n - Ymd(YearOf(n), 1, 1), YearOf(n))

DayOf(n) == n - Ymd(YearOf(n), MonthOf(n), 1) + 1

\* "%04d-%02d-%02d" % (y, m, d)
IsoYmd(y, m, d) ==
  ZeroPad(y, 4) \o << "-" >> \o ZeroPad(m, 2) \o << "-" >> \o ZeroPad(d, 2)

\* date.isoformat()
IsoFormat(n) == IsoYmd(YearOf(n), MonthOf(n), DayOf(n))

\* The fields datetime.strptime(v, "%Y-%m-%d") matches: four digits, "-",
\* a month (1[0-2]|0[1-9]|[1-9]), "-", a day (3[01]|[12]\d|0[1-9]|[1-9]| [1-9]),
\* and nothing after.
MonthText(t) == Len(t) \in {1, 2} /\ AllDigits(t) /\ DigitsVal(t) \in 1..12

DayText(t) ==
  \/ Len(t) \in {1, 2} /\ AllDigits(t) /\ DigitsVal(t) \in 1..31
  \/ Len(t) = 2 /\ t[1] = " " /\ IsDigit(t[2]) /\ DigitVal(t[2]) >= 1

\* date(y, m, d), or the ValueError of a day the month does not have
DateOrNone(y, m, d) ==
  IF y >= 1 /\ d <= DaysInMonth(y, m) THEN Some(Ymd(y, m, d)) ELSE None

DayTextVal(t) == IF t[1] = " " THEN DigitVal(t[2]) ELSE DigitsVal(t)

\* the match of "%Y-%m-%d" on v, whose month ends before the dash at p
MatchYmd(v, p) ==
  IF MonthText(SubSeq(v, 6, p - 1)) /\ DayText(SubSeq(v, p + 1, Len(v)))
    THEN DateOrNone(DigitsVal(SubSeq(v, 1, 4)),
                    DigitsVal(SubSeq(v, 6, p - 1)),
                    DayTextVal(SubSeq(v, p + 1, Len(v))))
    ELSE None

FirstIn(S) == CHOOSE i \in S : \A j \in S : i <= j

\* datetime.strptime(v, "%Y-%m-%d").date(), None for its ValueError
StrpDate(v) ==
  IF Len(v) >= 8 /\ AllDigits(SubSeq(v, 1, 4)) /\ v[5] = "-"
       /\ {i \in 6..Len(v) : v[i] = "-"} # {}
    THEN MatchYmd(v, FirstIn({i \in 6..Len(v) : v[i] = "-"}))
    ELSE None

StrpDateNonEmpty(v) == IF Len(v) = 0 THEN None ELSE StrpDate(v)

parse_date(value) ==
  IF value = None THEN None ELSE StrpDateNonEmpty(Strip(Val(value)))

\* parse_float, on the strings without a fraction or an exponent: an optional
\* sign and digits, after "$" and "," are removed; anything else is None.
ToFloat(u) ==
  IF Len(u) >= 1 /\ AllDigits(u) THEN Some(DigitsVal(u))
  ELSE IF Len(u) >= 2 /\ u[1] = "-" /\ AllDigits(Tail(u))
    THEN Some(0 - DigitsVal(Tail(u)))
  ELSE None

ParseFloatStripped(v) ==
  IF Len(v) = 0 THEN None
  ELSE ToFloat(Strip(SelectSeq(v, LAMBDA c : c # "$" /\ c # ",")))

parse_float(value) ==
  IF value = None THEN None ELSE ParseFloatStripped(Strip(Val(value)))

(***************************************************************************)
(* Items (models.Item) and the expressions of the reports view             *)
(***************************************************************************)

\* SQL rows of the items table: the values of a store keyed by sku
Rows(st) == {st[k] : k \in DOMAIN st}

\* the sum of the integers f[x], x in S
RECURSIVE SumFn(_, _)
SumFn(f, S) ==
  IF S = {} THEN 0
  ELSE LET x == CHOOSE y \in S : TRUE
       IN  f[x] + SumFn(f, S \ {x})

SumOver(S, f(_)) == SumFn([x \in S |-> f(x)], S)

\* A float that is a quotient is kept as the quotient; Float(n) is float(n).
Float(n) == [num |-> n, den |-> 1]

Quot(n, d) == [num |-> n, den |-> d]

\* SQL avg() over the non-NULL values of f on S: NULL when there is none
AvgOf(vals, T) ==
  IF T = {} THEN None ELSE Some(Quot(SumFn(vals, T), Cardinality(T)))

SqlAvg(S, f(_)) ==
  AvgOf([x \in S |-> IF f(x) # None THEN Val(f(x)) ELSE 0],
        {x \in S : f(x) # None})

nz(v) == IF v = None THEN 0 ELSE Val(v)

Item_n(v) == IF v = None THEN 0 ELSE Val(v)

net_cost(it) ==
  Item_n(it.cog) + Item_n(it.ad_fee) + Item_n(it.ebay_fee) + Item_n(it.shipping)

gross_profit(it) == Item_n(it.buyer_paid_amount) - net_cost(it)

\* A profit that leaves the shipping cost out
profit_expr_without_shipping(it) ==
  nz(it.buyer_paid_amount) - (nz(it.cog) + nz(it.ad_fee) + nz(it.ebay_fee))

profit_expr(it) ==
  nz(it.buyer_paid_amount)
    - (nz(it.cog) + nz(it.shipping) + nz(it.ad_fee) + nz(it.ebay_fee))

\* Days to sell that count an item without both dates as 0 days
days_to_sell_expr_or_zero(it) ==
  IF it.date_listed # None /\ it.date_sold # None
    THEN Some(Val(it.date_sold) - Val(it.date_listed))
    ELSE Some(0)

days_to_sell_expr(it) ==
  IF it.date_listed # None /\ it.date_sold # None
    THEN Some(Val(it.date_sold) - Val(it.date_listed))
    ELSE None

Uncategorized ==
  << "U", "n", "c", "a", "t", "e", "g", "o", "r", "i", "z", "e", "d" >>

Unknown == << "U", "n", "k", "n", "o", "w", "n" >>

category_col(it) ==
  IF it.category = None THEN Uncategorized ELSE Val(it.category)

source_col(it) ==
  IF it.source_location = None THEN Unknown ELSE Val(it.source_location)

(***************************************************************************)
(* The date range of a reports request                                     *)
(***************************************************************************)

K_all        == << "a", "l", "l" >>
K_30d        == << "3", "0", "d" >>
K_90d        == << "9", "0", "d" >>
K_this_month == << "t", "h", "i", "s", "_", "m", "o", "n", "t", "h" >>
K_last_month == << "l", "a", "s", "t", "_", "m", "o", "n", "t", "h" >>
K_this_year  == << "t", "h", "i", "s", "_", "y", "e", "a", "r" >>
K_last_year  == << "l", "a", "s", "t", "_", "y", "e", "a", "r" >>
K_custom     == << "c", "u", "s", "t", "o", "m" >>

\* (x or dflt) for an optional str
OrElse(x, dflt) == IF x = None \/ x = Some(<< >>) THEN dflt ELSE Val(x)

\* today.replace(day=1)
FirstOfMonth(d) == Ymd(YearOf(d), MonthOf(d), 1)

Range(range_key, start_date, end_date) ==
  [range_key |-> range_key, start_date |-> start_date, end_date |-> end_date]

\* A custom range that gives up both bounds when one date does not parse
CustomRange_both_or_none(range_key, sd, ed) ==
  IF sd = None \/ ed = None THEN Range(range_key, None, None)
  ELSE IF Val(sd) > Val(ed) THEN Range(range_key, ed, sd)
  ELSE Range(range_key, sd, ed)

\* A custom range that keeps the two dates in the order they were given
CustomRange_as_given(range_key, sd, ed) == Range(range_key, sd, ed)

\* the custom range of two parsed dates
CustomRange(range_key, sd, ed) ==
  IF sd # None /\ ed # None /\ Val(sd) > Val(ed)
    THEN Range(range_key, ed, sd)
    ELSE Range(range_key, sd, ed)

\* last_month's range from first_this_month - timedelta(days=1)
LastMonthRange(range_key, last_month_end) ==
  Range(range_key, Some(FirstOfMonth(last_month_end)), Some(last_month_end))

\* the range of a year up to its day end_in_year
YearRange(range_key, y, end_date) ==
  Range(range_key, Some(Ymd(y, 1, 1)), Some(end_date))

ResolveKey(range_key, start_s, end_s, today) ==
  IF range_key = K_30d THEN Range(range_key, Some(today - 30), Some(today))
  ELSE IF range_key = K_90d THEN
    Range(range_key, Some(today - 90), Some(today))
  ELSE IF range_key = K_this_month THEN
    Range(range_key, Some(FirstOfMonth(today)), Some(today))
  ELSE IF range_key = K_last_month THEN
    LastMonthRange(range_key, FirstOfMonth(today) - 1)
  ELSE IF range_key = K_this_year THEN
    YearRange(range_key, YearOf(today), today)
  ELSE IF range_key = K_last_year THEN
    YearRange(range_key, YearOf(today) - 1, Ymd(YearOf(today) - 1, 12, 31))
  ELSE IF range_key = K_custom THEN
    CustomRange(range_key, parse_date(Some(start_s)), parse_date(Some(end_s)))
  ELSE Range(K_all, None, None)

\* A resolver that compares the key as it was typed
resolve_range_as_typed(req) ==
  ResolveKey(OrElse(req.range, K_all),
             Strip(OrElse(req.start, << >>)),
             Strip(OrElse(req.end, << >>)),
             req.now)

\* The locals range_key, start_date, end_date of reports() once the range
\* of the request is resolved.
resolve_range(req) ==
  ResolveKey(Lower(Strip(OrElse(req.range, K_all))),
             Strip(OrElse(req.start, << >>)),
             Strip(OrElse(req.end, << >>)),
             req.now)

\* Date filters that let a row without date_sold through
sold_date_filters_null_passes(it, start_date, end_date) ==
  /\ start_date # None =>
       (it.date_sold = None \/ Val(it.date_sold) >= Val(start_date))
  /\ end_date # None =>
       (it.date_sold = None \/ Val(it.date_sold) <= Val(end_date))

\* The conjunction of sold_date_filters on one row; the empty list filters
\* nothing.
sold_date_filters(it, start_date, end_date) ==
  /\ start_date # None =>
       (it.date_sold # None /\ Val(it.date_sold) >= Val(start_date))
  /\ end_date # None =>
       (it.date_sold # None /\ Val(it.date_sold) <= Val(end_date))

(***************************************************************************)
(* The queries of reports(), each on the rows it finds when it runs        *)
(***************************************************************************)

\* sorted(set(keys)) for str keys
SortedKeys(S) ==
  [p \in 1..Cardinality(S) |->
     CHOOSE k \in S : Cardinality({j \in S : StrLess(j, k)}) = p - 1]

\* list.sort(key=..., reverse=True): descending by Gt, equal keys keep their
\* order
SortDescStable(seq, Gt(_, _)) ==
  LET n == Len(seq)
      rank(i) ==
        Cardinality({j \in 1..n :
                       \/ Gt(seq[j], seq[i])
                       \/ ~Gt(seq[i], seq[j]) /\ j < i})
  IN  [p \in 1..n |-> seq[CHOOSE i \in 1..n : rank(i) = p - 1]]

\* Item.query.filter(Item.sold.is_(True)) with sold_date_filters applied as
\* reports() applies them to each of its sold-side queries
SoldFiltered(st, start_date, end_date) ==
  {it \in Rows(st) : it.sold /\ sold_date_filters(it, start_date, end_date)}

total_items_q(st) == Cardinality(Rows(st))

sold_items_q(st, start_date, end_date) ==
  Cardinality(SoldFiltered(st, start_date, end_date))

\* A total that forgets the date filters of the range
total_profit_q_unfiltered(st, start_date, end_date) ==
  SumOver({it \in Rows(st) : it.sold}, profit_expr)

total_profit_q(st, start_date, end_date) ==
  SumOver(SoldFiltered(st, start_date, end_date), profit_expr)

avg_days_to_sell_q(st, start_date, end_date) ==
  SqlAvg(SoldFiltered(st, start_date, end_date), days_to_sell_expr)

\* julianday(current_date) - julianday(date_listed) for an unsold, listed row
days_listed_unsold(it, today) ==
  IF ~it.sold /\ it.date_listed # None
    THEN Some(today - Val(it.date_listed)) ELSE None

cog_unsold(it) == IF ~it.sold /\ it.cog # None THEN it.cog ELSE None

counts_of(G, today) ==
  [unsold_count |-> Cardinality({it \in G : ~it.sold}),
   total_count |-> Cardinality(G),
   avg_days_listed_unsold |->
     SqlAvg(G, LAMBDA it : days_listed_unsold(it, today))]

sold_metrics_of(G) ==
  [sold_count |-> Cardinality(G),
   total_profit |-> SumOver(G, profit_expr),
   avg_profit |-> Quot(SumOver(G, profit_expr), Cardinality(G))]

src_counts_of(G, today) ==
  [unsold_count |-> Cardinality({it \in G : ~it.sold}),
   total_count |-> Cardinality(G),
   avg_days_listed_unsold |->
     SqlAvg(G, LAMBDA it : days_listed_unsold(it, today)),
   avg_cog_unsold |-> SqlAvg(G, cog_unsold)]

src_sold_metrics_of(G) ==
  [sold_count |-> Cardinality(G),
   total_profit |-> SumOver(G, profit_expr),
   avg_profit |-> Quot(SumOver(G, profit_expr), Cardinality(G)),
   avg_days_to_sell |-> SqlAvg(G, days_to_sell_expr)]

\* GROUP BY key over the rows R, one entry per key that occurs
GroupBy(R, key(_), agg(_)) ==
  [k \in {key(it) : it \in R} |-> agg({it \in R : key(it) = k})]

\* rows_counts and the counts_map built from it
counts_map(st, today) ==
  GroupBy(Rows(st), category_col, LAMBDA G : counts_of(G, today))

\* Sold metrics per category that forget the date filters of the range
sold_map_unfiltered(st, start_date, end_date) ==
  GroupBy({it \in Rows(st) : it.sold}, category_col, sold_metrics_of)

\* sold_rows and the sold_map built from it
sold_map(st, start_date, end_date) ==
  GroupBy(SoldFiltered(st, start_date, end_date), category_col, sold_metrics_of)

src_counts_map(st, today) ==
  GroupBy(Rows(st), source_col, LAMBDA G : src_counts_of(G, today))

src_sold_map(st, start_date, end_date) ==
  GroupBy(SoldFiltered(st, start_date, end_date), source_col,
          src_sold_metrics_of)

\* top_q.limit(...)
TopLimit == 15

\* ORDER BY profit DESC: rows of equal profit come in the table's scan order,
\* which is by sku (the integer primary key).
ProfitBefore(a, b) ==
  \/ profit_expr(a) > profit_expr(b)
  \/ profit_expr(a) = profit_expr(b) /\ a.sku < b.sku

\* the first TopLimit rows of S in that order
OrderedLimit(S, n) ==
  [p \in 1..(IF n < TopLimit THEN n ELSE TopLimit) |->
     CHOOSE it \in S : Cardinality({o \in S : ProfitBefore(o, it)}) = p - 1]

\* A top query that forgets the date filters of the range
top_rows_unfiltered(st, start_date, end_date) ==
  OrderedLimit({it \in Rows(st) : it.sold},
               Cardinality({it \in Rows(st) : it.sold}))

top_rows(st, start_date, end_date) ==
  OrderedLimit(SoldFiltered(st, start_date, end_date),
               Cardinality(SoldFiltered(st, start_date, end_date)))

(***************************************************************************)
(* The report built from the query results                                 *)
(***************************************************************************)

\* dict.get(key, default)
DictGet(d, k, dflt) == IF k \in DOMAIN d THEN d[k] ELSE dflt

\* A rate that is left as a fraction of 1
RatePct_as_fraction(n, total) ==
  IF total # 0 THEN Quot(n, total) ELSE Float(0)

\* (n * 100.0 / total) if total else 0.0
RatePct(n, total) == IF total # 0 THEN Quot(n * 100, total) ELSE Float(0)

\* An order of the category rows that looks at the profit first
CategoryGt_profit_first(x, y) ==
  \/ x.total_profit > y.total_profit
  \/ x.total_profit = y.total_profit /\ x.sold_count > y.sold_count

CategoryGt(x, y) ==
  \/ x.sold_count > y.sold_count
  \/ x.sold_count = y.sold_count /\ x.total_profit > y.total_profit

category_row(cat, c, s) ==
  [category |-> cat,
   sold_count |-> s.sold_count,
   unsold_count |-> c.unsold_count,
   sold_rate_pct |-> RatePct(s.sold_count, c.total_count),
   total_profit |-> s.total_profit,
   avg_profit |-> s.avg_profit,
   avg_days_listed_unsold |-> c.avg_days_listed_unsold]

category_rows(all_cats, cmap, smap) ==
  [i \in 1..Len(all_cats) |->
     category_row(all_cats[i],
       DictGet(cmap, all_cats[i],
         [unsold_count |-> 0, total_count |-> 0,
          avg_days_listed_unsold |-> None]),
       DictGet(smap, all_cats[i],
         [sold_count |-> 0, total_profit |-> 0, avg_profit |-> Float(0)]))]

\* A category table that lists only the categories with a sale in range
by_category_sold_only(cmap, smap) ==
  SortDescStable(category_rows(SortedKeys(DOMAIN smap), cmap, smap),
                 CategoryGt)

by_category(cmap, smap) ==
  SortDescStable(
    category_rows(SortedKeys(DOMAIN cmap \cup DOMAIN smap), cmap, smap),
    CategoryGt)

\* the key of by_source.sort(...)
SourceGt(x, y) ==
  \/ x.sold_count > y.sold_count
  \/ x.sold_count = y.sold_count /\ x.total_profit > y.total_profit

source_row(src, c, s) ==
  [source |-> src,
   sold_count |-> s.sold_count,
   unsold_count |-> c.unsold_count,
   sold_rate_pct |-> RatePct(s.sold_count, c.total_count),
   total_profit |-> s.total_profit,
   avg_profit |-> s.avg_profit,
   avg_days_to_sell |-> s.avg_days_to_sell,
   avg_days_listed_unsold |-> c.avg_days_listed_unsold,
   avg_cog_unsold |-> c.avg_cog_unsold]

source_rows(all_sources, cmap, smap) ==
  [i \in 1..Len(all_sources) |->
     source_row(all_sources[i],
       DictGet(cmap, all_sources[i],
         [unsold_count |-> 0, total_count |-> 0,
          avg_days_listed_unsold |-> None, avg_cog_unsold |-> None]),
       DictGet(smap, all_sources[i],
         [sold_count |-> 0, total_profit |-> 0, avg_profit |-> Float(0),
          avg_days_to_sell |-> None]))]

by_source(cmap, smap) ==
  SortDescStable(
    source_rows(SortedKeys(DOMAIN cmap \cup DOMAIN smap), cmap, smap),
    SourceGt)

top_profit_row(r) ==
  [sku |-> r.sku,
   item_name |-> r.item_name,
   category |-> category_col(r),
   profit |-> profit_expr(r),
   days_to_sell |-> days_to_sell_expr(r),
   date_sold |-> IF r.date_sold # None
                   THEN Some(IsoFormat(Val(r.date_sold))) ELSE None]

top_profit(rows) == [i \in 1..Len(rows) |-> top_profit_row(rows[i])]

kpis(q) ==
  [total_items |-> q.total_items,
   sold_items |-> q.sold_items,
   sold_rate_pct |-> RatePct(q.sold_items, q.total_items),
   total_profit |-> q.total_profit,
   avg_profit_per_sold |->
     IF q.sold_items # 0 THEN Quot(q.total_profit, q.sold_items) ELSE Float(0),
   avg_days_to_sell |->
     IF q.avg_days_to_sell # None THEN Val(q.avg_days_to_sell) ELSE Float(0)]

\* what reports() hands to render_template, from its locals L (the resolved
\* range) and the results q of its queries
render_report(L, q) ==
  [kind |-> "report",
   kpis |-> kpis(q),
   by_category |-> by_category(q.counts_map, q.sold_map),
   by_source |-> by_source(q.src_counts_map, q.src_sold_map),
   top_profit |-> top_profit(q.top_rows),
   range_key |-> L.range_key,
   start |-> IF L.start_date # None THEN IsoFormat(Val(L.start_date)) ELSE << >>,
   end |-> IF L.end_date # None THEN IsoFormat(Val(L.end_date)) ELSE << >>]

\* every query of reports() run against one and the same table contents
run_queries(st, L, today) ==
  [total_items |-> total_items_q(st),
   sold_items |-> sold_items_q(st, L.start_date, L.end_date),
   total_profit |-> total_profit_q(st, L.start_date, L.end_date),
   avg_days_to_sell |-> avg_days_to_sell_q(st, L.start_date, L.end_date),
   counts_map |-> counts_map(st, today),
   sold_map |-> sold_map(st, L.start_date, L.end_date),
   src_counts_map |-> src_counts_map(st, today),
   src_sold_map |-> src_sold_map(st, L.start_date, L.end_date),
   top_rows |-> top_rows(st, L.start_date, L.end_date)]

(***************************************************************************)
(* State                                                                    *)
(***************************************************************************)

VARIABLES
  store,     \* the items table: sku -> row
  request,   \* the query string of the reports request that was answered
             \* last, when the last request was one
  response,  \* what the last finished request was answered with
  pc,        \* where a reports request that runs query by query stands
  frame      \* its locals: the resolved range and the query results so far

vars == << store, request, response, pc, frame >>

NoRequest == [range |-> None, start |-> None, end |-> None, top_n |-> None,
              now |-> 0]

NoResponse == [kind |-> "none"]

NoFrame == [req |-> NoRequest, L |-> None, q |-> None]

(***************************************************************************)
(* Inputs                                                                   *)
(***************************************************************************)

\* the largest number of rows of the items table
MaxItems == 2

Skus == 1..MaxItems

S_empty == << >>
S_bad   == << "b", "a", "d" >>

Day_2023_12_31 == Ymd(2023, 12, 31)
Day_2024_02_20 == Ymd(2024, 2, 20)
Day_2024_05_01 == Ymd(2024, 5, 1)
Day_2024_05_10 == Ymd(2024, 5, 10)

\* the dates on which requests arrive
Now_Jan == Ymd(2024, 1, 15)
Now_Mar == Ymd(2024, 3, 15)
Now_May == Ymd(2024, 5, 20)

Form(name, cat, src, cog, ship, ad, fee, paid, listed, solddate, sold) ==
  [item_name |-> name, category |-> cat, source_location |-> src,
   cog |-> cog, shipping |-> ship, ad_fee |-> ad, ebay_fee |-> fee,
   buyer_paid_amount |-> paid, date_listed |-> listed,
   date_sold |-> solddate, sold |-> sold]

\* the form submissions of the item pages
F_A25 ==
  Form(<< "a" >>, << "A" >>, << "X" >>, << "2", "0" >>, << "5" >>, << "0" >>,
       S_empty, << "5", "0" >>, IsoFormat(Day_2024_02_20),
       IsoFormat(Day_2024_05_01), << "Y" >>)
F_A100 ==
  Form(<< "b" >>, << "A" >>, << "Y" >>, << "2", "0" >>, S_empty, S_empty,
       S_empty, << "$", "1", "2", "0" >>, IsoFormat(Day_2024_05_01),
       IsoFormat(Day_2024_05_10), << "Y" >>)
F_SoldNoDate ==
  Form(<< "c" >>, << "B" >>, << "X" >>, S_empty, S_empty, S_empty, S_empty,
       << "1", "0" >>, S_empty, S_empty, << "Y" >>)
F_UnsoldBlank ==
  Form(<< "d" >>, S_empty, << " " >>, << "2", "0" >>, S_empty, S_empty,
       S_empty, S_empty, IsoFormat(Day_2024_02_20), S_empty, << "N" >>)
F_UnsoldDated ==
  Form(<< "e" >>, << "B" >>, << " ", "Y", " " >>, S_bad, S_empty, S_empty,
       S_empty, << "4", "0" >>, S_empty, IsoFormat(Day_2024_05_01), S_empty)
F_Loss ==
  Form(<< "f" >>, << "A" >>, << "X" >>, << "2", "0" >>, S_empty, S_empty,
       S_empty, << "5" >>, S_bad, IsoFormat(Day_2023_12_31), << "Y" >>)
F_B25 ==
  Form(<< "g" >>, << "B" >>, << "Y" >>, S_empty, S_empty, S_empty, S_empty,
       << "2", "5" >>, IsoFormat(Day_2024_05_01), IsoFormat(Day_2024_05_01),
       << "Y" >>)
F_NoName ==
  Form(<< " " >>, << "A" >>, << "X" >>, S_empty, S_empty, S_empty, S_empty,
       S_empty, S_empty, S_empty, << "Y" >>)

ValidForms ==
  {F_A25, F_A100, F_SoldNoDate, F_UnsoldBlank, F_UnsoldDated, F_Loss, F_B25}

Forms == ValidForms \cup {F_NoName}

ReqTop(range, start, end, top_n, now) ==
  [range |-> range, start |-> start, end |-> end, top_n |-> top_n, now |-> now]

Req(range, start, end, now) == ReqTop(range, start, end, None, now)

RelativeKeys ==
  {K_30d, K_90d, K_this_month, K_last_month, K_this_year, K_last_year}

\* a day that February does not have, and a date with one-digit month and day
S_feb30 == << "2", "0", "2", "4", "-", "0", "2", "-", "3", "0" >>
S_loose == << "2", "0", "2", "4", "-", "5", "-", "1" >>

DateStrings ==
  {S_empty, S_bad, S_feb30, S_loose,
   IsoFormat(Day_2024_05_01), IsoFormat(Day_2024_05_10)}

Requests ==
  {Req(Some(k), None, None, n) : k \in RelativeKeys, n \in {Now_Jan, Now_Mar, Now_May}}
    \cup {Req(k, None, None, Now_May) :
            k \in {None, Some(S_empty), Some(K_all), Some(<< "w", "e", "e", "k" >>),
                   Some(<< " ", "3", "0", "D", " " >>)}}
    \cup {Req(Some(K_custom), Some(a), Some(b), Now_May) :
            a \in DateStrings, b \in DateStrings}

\* Inputs of the runs with more sold rows than the top list holds: row k is
\* sold on one of two days for a profit between 1 and 7.
MaxTopItems == 16

\* the rows that are written to in those runs
MaxTopWrites == 2

TopForm(k) ==
  Form(<< "t" >>, << "A" >>, << "X" >>, S_empty, S_empty, S_empty, S_empty,
       ZeroPad(((k * 3) % 7) + 1, 2), S_empty,
       IF k % 2 = 0 THEN IsoFormat(Day_2024_05_01)
       ELSE IsoFormat(Day_2024_05_10),
       << "Y" >>)

TopForms == {TopForm(k) : k \in 1..(MaxTopItems + 1)}

TopEditForms == {F_UnsoldBlank, F_A100}

TopRequests ==
  {ReqTop(Some(K_all), None, None, Some(<< "2" >>), Now_May),
   ReqTop(Some(K_all), None, None, Some(<< "5", "0" >>), Now_May),
   ReqTop(Some(K_custom), Some(IsoFormat(Day_2024_05_10)), None,
          Some(<< "2" >>), Now_May),
   ReqTop(Some(K_30d), None, None, None, Now_May)}

\* Inputs of the runs in which writes fall between the queries of a report
MaxConcItems == 2

ConcForms == {F_UnsoldBlank}

ConcRequests == {Req(Some(K_all), None, None, Now_May)}

AllForms == Forms \cup TopForms

AllRequests == Requests \cup TopRequests

(***************************************************************************)
(* Item writes                                                              *)
(***************************************************************************)

\* s.strip() or None
StripOrNone(s) == IF Strip(s) = << >> THEN None ELSE Some(Strip(s))

\* the values item_edit reads from the submitted form
form_values(form) ==
  [item_name |-> Strip(form.item_name),
   category |-> StripOrNone(form.category),
   source_location |-> StripOrNone(form.source_location),
   cog |-> parse_float(Some(form.cog)),
   ad_fee |-> parse_float(Some(form.ad_fee)),
   ebay_fee |-> parse_float(Some(form.ebay_fee)),
   shipping |-> parse_float(Some(form.shipping)),
   buyer_paid_amount |-> parse_float(Some(form.buyer_paid_amount)),
   date_listed |-> parse_date(Some(form.date_listed)),
   date_sold |-> parse_date(Some(form.date_sold)),
   sold |-> (form.sold = << "Y" >>)]

\* form_values, tabulated over the submissions in use
FormValues == [f \in AllForms |-> form_values(f)]

\* the assignments of item_edit
assign_fields(item, v) ==
  [item EXCEPT
     !.item_name = v.item_name,
     !.category = v.category,
     !.source_location = v.source_location,
     !.cog = v.cog,
     !.ad_fee = v.ad_fee,
     !.ebay_fee = v.ebay_fee,
     !.shipping = v.shipping,
     !.buyer_paid_amount = v.buyer_paid_amount,
     !.date_listed = v.date_listed,
     !.date_sold = v.date_sold,
     !.sold = v.sold]

item_edit_fields(item, form) == assign_fields(item, FormValues[form])

\* a row with the columns' defaults
BlankItem(sku) ==
  [sku |-> sku, item_name |-> << >>, category |-> None,
   source_location |-> None, cog |-> None, ad_fee |-> None, ebay_fee |-> None,
   shipping |-> None, buyer_paid_amount |-> None, date_listed |-> None,
   date_sold |-> None, sold |-> FALSE]

Idle == pc = "idle"

\* POST /item/<sku>/edit
ItemEdit(sku, form) ==
  /\ IF sku \notin DOMAIN store
       THEN /\ response' = [kind |-> "error", code |-> 404]
            /\ UNCHANGED store
       ELSE IF FormValues[form].item_name = << >>
              THEN /\ response' = [kind |-> "form"]
                   /\ UNCHANGED store
              ELSE /\ store' = [store EXCEPT
                                  ![sku] = item_edit_fields(store[sku], form)]
                   /\ response' = [kind |-> "redirect"]
  /\ request' = NoRequest
  /\ UNCHANGED << pc, frame >>

\* POST /item/<sku>/delete
ItemDelete(sku) ==
  /\ IF sku \notin DOMAIN store
       THEN /\ response' = [kind |-> "error", code |-> 404]
            /\ UNCHANGED store
       ELSE /\ store' = [k \in DOMAIN store \ {sku} |-> store[k]]
            /\ response' = [kind |-> "redirect"]
  /\ request' = NoRequest
  /\ UNCHANGED << pc, frame >>

\* POST /item/new: the Item(...) call is handed the keyword prefill_barcode,
\* which is no column of Item, and raises before anything is added.
ItemNew(form) ==
  /\ response' = [kind |-> "error", code |-> 500]
  /\ request' = NoRequest
  /\ UNCHANGED << store, pc, frame >>

(***************************************************************************)
(* GET /reports                                                             *)
(***************************************************************************)

\* A report that ages the unsold rows by the date of the request served
\* before this one
report_stale_today(st, L, today) ==
  render_report(L, run_queries(st, L, request.now))

\* the report of a request whose queries all read the table st
report(st, L, today) == render_report(L, run_queries(st, L, today))

\* resolve_range, tabulated over the requests in use
ResolvedRange == [r \in AllRequests |-> resolve_range(r)]

\* the whole request, with no write to the table while it runs
Reports(req) ==
  /\ Idle
  /\ request' = req
  /\ response' = report(store, ResolvedRange[req], req.now)
  /\ UNCHANGED << store, pc, frame >>

(***************************************************************************)
(* Requests served one after the other                                     *)
(***************************************************************************)

Init ==
  /\ \E n \in 0..MaxItems :
       \E fs \in [1..n -> ValidForms] :
         store = [k \in 1..n |-> item_edit_fields(BlankItem(k), fs[k])]
  /\ request = NoRequest
  /\ response = NoResponse
  /\ pc = "idle"
  /\ frame = NoFrame

\* A client asks for a report, or reloads the one it is looking at; it asks
\* for another one after some other page.
Next ==
  \/ \E req \in Requests : response.kind # "report" /\ Reports(req)
  \/ response.kind = "report" /\ Reports(request)
  \/ \E sku \in Skus, form \in Forms : ItemEdit(sku, form)
  \/ \E sku \in Skus : ItemDelete(sku)
  \/ \E form \in Forms : ItemNew(form)

Spec == Init /\ [][Next]_vars

(***************************************************************************)
(* Requests served one after the other, with more rows than the top list   *)
(* holds                                                                    *)
(***************************************************************************)

InitTop ==
  /\ \E n \in 0..MaxTopItems :
       store = [k \in 1..n |-> item_edit_fields(BlankItem(k), TopForm(k))]
  /\ request = NoRequest
  /\ response = NoResponse
  /\ pc = "idle"
  /\ frame = NoFrame

NextTop ==
  \/ \E req \in TopRequests : response.kind # "report" /\ Reports(req)
  \/ response.kind = "report" /\ Reports(request)
  \/ \E sku \in 1..MaxTopWrites, form \in TopEditForms : ItemEdit(sku, form)
  \/ \E sku \in 1..MaxTopWrites : ItemDelete(sku)
  \/ \E form \in TopEditForms : ItemNew(form)

SpecTop == InitTop /\ [][NextTop]_vars

(***************************************************************************)
(* GET /reports query by query, while other requests write to the table    *)
(***************************************************************************)

EmptyQ ==
  [total_items |-> 0, sold_items |-> 0, total_profit |-> 0,
   avg_days_to_sell |-> None, counts_map |-> << >>, sold_map |-> << >>,
   src_counts_map |-> << >>, src_sold_map |-> << >>, top_rows |-> << >>]

\* lines 315-350: the request arrives and its range is resolved
ReportsBegin(req) ==
  /\ pc = "idle"
  /\ frame' = [req |-> req, L |-> ResolvedRange[req], q |-> EmptyQ]
  /\ pc' = "total_items"
  /\ UNCHANGED << store, request, response >>

\* one query of reports(): its result is kept in the frame
Query(at, then, result) ==
  /\ pc = at
  /\ frame' = [frame EXCEPT !.q = result]
  /\ pc' = then
  /\ UNCHANGED << store, request, response >>

QTotalItems ==
  Query("total_items", "sold_items",
        [frame.q EXCEPT !.total_items = total_items_q(store)])

QSoldItems ==
  Query("sold_items", "total_profit",
        [frame.q EXCEPT
           !.sold_items =
              sold_items_q(store, frame.L.start_date, frame.L.end_date)])

QTotalProfit ==
  Query("total_profit", "avg_days_to_sell",
        [frame.q EXCEPT
           !.total_profit =
              total_profit_q(store, frame.L.start_date, frame.L.end_date)])

QAvgDaysToSell ==
  Query("avg_days_to_sell", "rows_counts",
        [frame.q EXCEPT
           !.avg_days_to_sell =
              avg_days_to_sell_q(store, frame.L.start_date, frame.L.end_date)])

QRowsCounts ==
  Query("rows_counts", "sold_rows",
        [frame.q EXCEPT !.counts_map = counts_map(store, frame.req.now)])

QSoldRows ==
  Query("sold_rows", "src_rows_counts",
        [frame.q EXCEPT
           !.sold_map = sold_map(store, frame.L.start_date, frame.L.end_date)])

QSrcRowsCounts ==
  Query("src_rows_counts", "src_sold_rows",
        [frame.q EXCEPT
           !.src_counts_map = src_counts_map(store, frame.req.now)])

QSrcSoldRows ==
  Query("src_sold_rows", "top_rows",
        [frame.q EXCEPT
           !.src_sold_map =
              src_sold_map(store, frame.L.start_date, frame.L.end_date)])

QTopRows ==
  Query("top_rows", "render",
        [frame.q EXCEPT
           !.top_rows = top_rows(store, frame.L.start_date, frame.L.end_date)])

\* lines 612-630: the report is rendered from the results
ReportsEnd ==
  /\ pc = "render"
  /\ response' = render_report(frame.L, frame.q)
  /\ request' = frame.req
  /\ pc' = "idle"
  /\ frame' = NoFrame
  /\ UNCHANGED store

InitConc ==
  /\ store = [k \in 1..MaxConcItems |->
                item_edit_fields(BlankItem(k),
                                 IF k % 2 = 1 THEN F_A25 ELSE F_A100)]
  /\ request = NoRequest
  /\ response = NoResponse
  /\ pc = "idle"
  /\ frame = NoFrame

NextConc ==
  \/ \E req \in ConcRequests : ReportsBegin(req)
  \/ QTotalItems
  \/ QSoldItems
  \/ QTotalProfit
  \/ QAvgDaysToSell
  \/ QRowsCounts
  \/ QSoldRows
  \/ QSrcRowsCounts
  \/ QSrcSoldRows
  \/ QTopRows
  \/ ReportsEnd
  \/ \E sku \in 1..MaxConcItems, form \in ConcForms : ItemEdit(sku, form)
  \/ \E sku \in 1..MaxConcItems : ItemDelete(sku)
  \/ \E form \in ConcForms : ItemNew(form)

SpecConc == InitConc /\ [][NextConc]_vars

(***************************************************************************)
(* Properties of the reports                                                *)
(***************************************************************************)

IsReport == response.kind = "report"

\* the resolved range of the request that the response answers
Lreq == ResolvedRange[request]

Unbounded(L) == L.start_date = None /\ L.end_date = None

InBounds(it, L) ==
  /\ it.date_sold # None
  /\ (L.start_date # None => Val(it.date_sold) >= Val(L.start_date))
  /\ (L.end_date # None => Val(it.date_sold) <= Val(L.end_date))

\* the sold-and-in-range subset of a table
SoldInRange(st, L) ==
  {it \in Rows(st) : it.sold /\ (Unbounded(L) \/ InBounds(it, L))}

CategoryKey(it) ==
  IF it.category = None THEN Uncategorized ELSE Val(it.category)

SourceKey(it) ==
  IF it.source_location = None THEN Unknown ELSE Val(it.source_location)

TopSkus == {response.top_profit[i].sku : i \in 1..Len(response.top_profit)}

\* C1: in every report, the KPI sold count is the number of sold items whose
\* date_sold lies inside the inclusive resolved bounds, and the KPI total
\* profit is the sum of their profits; sold items outside the range add
\* nothing.
C1_KpiOverSoldInRange ==
  IsReport =>
    /\ response.kpis.sold_items = Cardinality(SoldInRange(store, Lreq))
    /\ response.kpis.total_profit =
         SumOver(SoldInRange(store, Lreq), profit_expr)

\* a one-day range with a sale of 25 inside it and a sale of 100 outside it
C1_Witness ==
  /\ IsReport
  /\ ~Unbounded(Lreq)
  /\ \E it \in Rows(store) :
       it.sold /\ ~InBounds(it, Lreq) /\ profit_expr(it) = 100
  /\ \E it \in Rows(store) :
       it.sold /\ InBounds(it, Lreq) /\ profit_expr(it) = 25
  /\ response.kpis.sold_items = 1
  /\ response.kpis.total_profit = 25

UndatedSold == {it \in Rows(store) : it.sold /\ it.date_sold = None}

Dated == {it \in Rows(store) : it.date_sold # None}

\* the sold-side aggregates around the row it count exactly the rows of S
SoldSideCounts(it, S) ==
  /\ response.kpis.sold_items = Cardinality(S)
  /\ response.kpis.total_profit = SumOver(S, profit_expr)
  /\ \E i \in 1..Len(response.by_category) :
       /\ response.by_category[i].category = CategoryKey(it)
       /\ response.by_category[i].sold_count =
            Cardinality({o \in S : CategoryKey(o) = CategoryKey(it)})
       /\ response.by_category[i].total_profit =
            SumOver({o \in S : CategoryKey(o) = CategoryKey(it)}, profit_expr)
  /\ \E i \in 1..Len(response.by_source) :
       /\ response.by_source[i].source = SourceKey(it)
       /\ response.by_source[i].sold_count =
            Cardinality({o \in S : SourceKey(o) = SourceKey(it)})
       /\ response.by_source[i].total_profit =
            SumOver({o \in S : SourceKey(o) = SourceKey(it)}, profit_expr)

\* C2: an item marked sold that has no date_sold is left out of every
\* sold-side aggregate (KPI count and profit, the sold count and profit of
\* its category and of its source, the top list) when the resolved range has
\* at least one bound, and is part of all of them when it has none.
C2_UndatedSoldItems ==
  IsReport =>
    \A it \in UndatedSold :
      IF Unbounded(Lreq)
        THEN /\ SoldSideCounts(it, {o \in Rows(store) : o.sold})
             /\ it.sku \in TopSkus
        ELSE /\ SoldSideCounts(it, {o \in Dated : o.sold /\ InBounds(o, Lreq)})
             /\ it.sku \notin TopSkus

\* a range with a start and no end, a sold item without date_sold and a
\* dated sale that the report counts
C2_Witness ==
  /\ IsReport
  /\ Lreq.start_date # None
  /\ Lreq.end_date = None
  /\ UndatedSold # {}
  /\ response.kpis.sold_items = 1
  /\ TopSkus # {}

\* the rows of a grouped table are right for the rows of the table: one row
\* for each key, the real unsold count, and zero sold count and profit for a
\* key without a sale in range
GroupRows(rows, keyOf(_), Key(_)) ==
  LET keys == {Key(it) : it \in Rows(store)}
               \cup {Key(it) : it \in SoldInRange(store, Lreq)}
  IN  /\ {keyOf(rows[i]) : i \in 1..Len(rows)} = keys
      /\ Len(rows) = Cardinality(keys)
      /\ \A i \in 1..Len(rows) :
           /\ rows[i].unsold_count =
                Cardinality({it \in Rows(store) :
                               Key(it) = keyOf(rows[i]) /\ ~it.sold})
           /\ ({it \in SoldInRange(store, Lreq) : Key(it) = keyOf(rows[i])}
                 = {}
               => rows[i].sold_count = 0 /\ rows[i].total_profit = 0)

\* C3: the category table and the source table have exactly one row for
\* each key that occurs in the inventory or among the sales in range; a key
\* without a sale in range has sold count 0 and total profit 0 next to its
\* real unsold count; items without a category are grouped under
\* "Uncategorized" and items without a source under "Unknown".
C3_GroupRowsAreUnion ==
  IsReport =>
    /\ GroupRows(response.by_category, LAMBDA r : r.category, CategoryKey)
    /\ GroupRows(response.by_source, LAMBDA r : r.source, SourceKey)

\* several items, all unsold and without a category: one row, 0 sold, all of
\* them unsold
C3_Witness ==
  /\ IsReport
  /\ \E i \in 1..Len(response.by_category) :
       /\ response.by_category[i].category = Uncategorized
       /\ response.by_category[i].sold_count = 0
       /\ response.by_category[i].total_profit = 0
       /\ response.by_category[i].unsold_count = Cardinality(Rows(store))
       /\ response.by_category[i].unsold_count > 1
  /\ \E i \in 1..Len(response.by_source) :
       /\ response.by_source[i].source = Unknown
       /\ response.by_source[i].sold_count = 0

\* C4: the rows of the source table come in descending order of
\* (total_profit, sold_count).
C4_SourceOrder ==
  IsReport =>
    \A i \in 1..(Len(response.by_source) - 1) :
      \/ response.by_source[i].total_profit
           > response.by_source[i + 1].total_profit
      \/ /\ response.by_source[i].total_profit
              = response.by_source[i + 1].total_profit
         /\ response.by_source[i].sold_count
              >= response.by_source[i + 1].sold_count

\* the size a top list is asked to have: top_n, clamped to 5..10
ClampedTopN(req) ==
  IF DigitsVal(Val(req.top_n)) < 5 THEN 5
  ELSE IF DigitsVal(Val(req.top_n)) > 10 THEN 10
  ELSE DigitsVal(Val(req.top_n))

Min(a, b) == IF a < b THEN a ELSE b

\* C5: the top list holds N entries, N being the requested size clamped to
\* the range 5..10 (2 gives 5, 50 gives 10), or every qualifying item when
\* there are fewer than N.
C5_TopNClamped ==
  (IsReport /\ request.top_n # None) =>
    Len(response.top_profit)
      = Min(ClampedTopN(request), Cardinality(SoldInRange(store, Lreq)))

\* C6: every entry of the top list is a sold item in range with its profit;
\* the entries come in non-increasing order of profit; no item occurs twice;
\* every sold item in range that is left out has a profit no greater than
\* the last entry's; and when fewer items qualify than the limit, the list
\* holds all of them.
C6_TopList ==
  IsReport =>
    LET top == response.top_profit
        Q == SoldInRange(store, Lreq)
    IN  /\ \A i \in 1..Len(top) :
             \E it \in Q : it.sku = top[i].sku /\ profit_expr(it) = top[i].profit
        /\ \A i \in 1..(Len(top) - 1) : top[i].profit >= top[i + 1].profit
        /\ Cardinality(TopSkus) = Len(top)
        /\ \A it \in Q :
             it.sku \notin TopSkus =>
               Len(top) > 0 /\ profit_expr(it) <= top[Len(top)].profit
        /\ Cardinality(Q) < TopLimit => TopSkus = {it.sku : it \in Q}

\* a full list with equal profits next to each other and a qualifying item
\* left out
C6_Witness ==
  /\ IsReport
  /\ Len(response.top_profit) = TopLimit
  /\ \E it \in SoldInRange(store, Lreq) : it.sku \notin TopSkus
  /\ \E i \in 1..(Len(response.top_profit) - 1) :
       response.top_profit[i].profit = response.top_profit[i + 1].profit
  /\ \E i \in 1..(Len(response.top_profit) - 1) :
       response.top_profit[i].profit > response.top_profit[i + 1].profit

\* the tables a report can have read while writes run next to it
ConcStores ==
  UNION {{st \in [D -> {item_edit_fields(BlankItem(k), f) :
                          k \in D, f \in {F_A25, F_A100} \cup ConcForms}] :
            \A k \in D : st[k].sku = k} :
         D \in SUBSET (1..MaxConcItems)}

\* C7: the KPIs, the category table, the source table and the top list of a
\* report are those of one and the same content of the table, whatever
\* writes run while the report is computed.
C7_OneSnapshot ==
  IsReport =>
    \E st \in ConcStores : response = report(st, Lreq, request.now)

C9_StartNotAfterEnd ==
  IsReport =>
    /\ (Lreq.start_date # None /\ Lreq.end_date # None)
         => /\ Val(Lreq.start_date) <= Val(Lreq.end_date)
            /\ response.start = IsoFormat(Val(Lreq.start_date))
            /\ response.end = IsoFormat(Val(Lreq.end_date))
    /\ (/\ Lreq.range_key = K_custom
        /\ parse_date(request.start) # None
        /\ parse_date(request.end) # None
        /\ Val(parse_date(request.start)) > Val(parse_date(request.end)))
         => /\ Lreq.start_date = parse_date(request.end)
            /\ Lreq.end_date = parse_date(request.start)

\* a custom request from 2024-05-10 to 2024-05-01
C9_Witness ==
  /\ IsReport
  /\ response.range_key = K_custom
  /\ request.start = Some(IsoFormat(Day_2024_05_10))
  /\ request.end = Some(IsoFormat(Day_2024_05_01))
  /\ response.start = IsoFormat(Day_2024_05_01)
  /\ response.end = IsoFormat(Day_2024_05_10)

RecognizedKeys ==
  {K_30d, K_90d, K_this_month, K_last_month, K_this_year, K_last_year,
   K_custom}

\* a key that is none of the recognized ones gets the unbounded range "all"
EchoesAll ==
  /\ response.range_key = K_all
  /\ response.start = << >>
  /\ response.end = << >>
  /\ Unbounded(Lreq)

\* C10 as stated: a range key of the request that is not one of 30d, 90d,
\* this_month, last_month, this_year, last_year, custom (a missing or empty
\* key included) gives both bounds absent and the echoed key "all"; a
\* recognized key is echoed as it is.
C10_KeyAsGiven ==
  IsReport =>
    IF request.range # None /\ Val(request.range) \in RecognizedKeys
      THEN response.range_key = Val(request.range)
      ELSE EchoesAll

\* the key of a request with the white space around it removed and in lower
\* case; << >> when the request has none
NormalKey(req) ==
  IF req.range = None THEN << >> ELSE Lower(Strip(Val(req.range)))

\* C10, amended: the key is compared after the white space around it is
\* removed and it is put in lower case; a key that is then none of the
\* recognized ones gives both bounds absent and the echoed key "all", and
\* one that is then recognized is echoed in that form.
C10_KeyNormalised ==
  IsReport =>
    IF NormalKey(request) \in RecognizedKeys
      THEN response.range_key = NormalKey(request)
      ELSE EchoesAll

\* the key "week"
C10_Witness ==
  /\ IsReport
  /\ request.range = Some(<< "w", "e", "e", "k" >>)
  /\ response.range_key = K_all
  /\ response.start = << >>
  /\ response.end = << >>

\* a number as it is written without padding
NumText(n) == IF n < 10 THEN << DigitChars[n + 1] >> ELSE ZeroPad(n, 2)

\* the ways to write the day d as year-month-day, month and day with or
\* without a leading zero
Spellings(d) ==
  {ZeroPad(YearOf(d), 4) \o << "-" >> \o m \o << "-" >> \o dd :
     m \in {ZeroPad(MonthOf(d), 2), NumText(MonthOf(d))},
     dd \in {ZeroPad(DayOf(d), 2), NumText(DayOf(d))}}

\* the date that a date string of a request denotes, None when it is empty
\* or denotes no day of the calendar
DateOfText ==
  [t \in DateStrings |->
     {d \in Ymd(2024, 1, 1)..Ymd(2024, 12, 31) : t \in Spellings(d)}]

OrZero(v) == IF v = None THEN 0 ELSE Val(v)

\* buyer_paid_amount - (cog + shipping + ad_fee + ebay_fee), absent as 0
StatedProfit(it) ==
  OrZero(it.buyer_paid_amount)
    - (OrZero(it.cog) + OrZero(it.shipping) + OrZero(it.ad_fee)
         + OrZero(it.ebay_fee))

SoldWithBothDates ==
  {it \in SoldInRange(store, Lreq) :
     it.date_listed # None /\ it.date_sold # None}

DaysToSell(it) == Val(it.date_sold) - Val(it.date_listed)

\* C13: the KPI average days-to-sell is the mean of date_sold - date_listed
\* over the sold items in range that have both dates; an item without one of
\* the dates adds nothing to the sum and nothing to the count; with no such
\* item the average is 0.0.
C13_AvgDaysToSell ==
  IsReport =>
    IF SoldWithBothDates = {}
      THEN response.kpis.avg_days_to_sell = Float(0)
      ELSE /\ response.kpis.avg_days_to_sell.den > 0
           /\ response.kpis.avg_days_to_sell.num
                * Cardinality(SoldWithBothDates)
              = response.kpis.avg_days_to_sell.den
                  * SumOver(SoldWithBothDates, DaysToSell)

\* two sales in range, one listed 71 days before it sold and one without
\* date_listed: the average is 71
C13_Witness ==
  /\ IsReport
  /\ response.kpis.sold_items = 2
  /\ Cardinality(SoldWithBothDates) = 1
  /\ \E it \in SoldInRange(store, Lreq) : it.date_listed = None
  /\ response.kpis.avg_days_to_sell = Quot(71, 1)

\* rate is sold * 100 / total, or 0 when total is 0, and lies in 0..100
RateIs(rate, sold, total) ==
  /\ rate.den > 0
  /\ IF total = 0 THEN rate.num = 0
     ELSE rate.num * total = rate.den * (sold * 100)
  /\ rate.num >= 0
  /\ rate.num <= 100 * rate.den

\* C14: sold_rate_pct of the KPI block and of every category and source row
\* is sold_count * 100 / total_count, and 0 when total_count is 0 (as for
\* the KPIs of an empty table), where sold_count counts the sold items in
\* range and total_count all items (of the group) whatever the range; it
\* lies between 0 and 100.
C14_SoldRatePct ==
  IsReport =>
    /\ RateIs(response.kpis.sold_rate_pct,
              Cardinality(SoldInRange(store, Lreq)),
              Cardinality(Rows(store)))
    /\ \A i \in 1..Len(response.by_category) :
         RateIs(response.by_category[i].sold_rate_pct,
                Cardinality({it \in SoldInRange(store, Lreq) :
                   CategoryKey(it) = response.by_category[i].category}),
                Cardinality({it \in Rows(store) :
                   CategoryKey(it) = response.by_category[i].category}))
    /\ \A i \in 1..Len(response.by_source) :
         RateIs(response.by_source[i].sold_rate_pct,
                Cardinality({it \in SoldInRange(store, Lreq) :
                   SourceKey(it) = response.by_source[i].source}),
                Cardinality({it \in Rows(store) :
                   SourceKey(it) = response.by_source[i].source}))

\* a bounded range and a category of two sold items, one of them sold
\* outside the range: 50 percent for the category and for the KPIs
C14_Witness ==
  /\ IsReport
  /\ ~Unbounded(Lreq)
  /\ Cardinality({it \in Rows(store) : it.sold}) = 2
  /\ response.kpis.sold_rate_pct = Quot(100, 2)
  /\ \E i \in 1..Len(response.by_category) :
       /\ response.by_category[i].sold_rate_pct = Quot(100, 2)
       /\ response.by_category[i].unsold_count = 0

\* C15: the rows of the category table come in descending order of
\* (sold_count, total_profit): of two consecutive rows the earlier one has
\* the greater sold_count, or the same sold_count and a total_profit that is
\* greater or equal.
C15_CategoryOrder ==
  IsReport =>
    \A i \in 1..(Len(response.by_category) - 1) :
      \/ response.by_category[i].sold_count
           > response.by_category[i + 1].sold_count
      \/ /\ response.by_category[i].sold_count
              = response.by_category[i + 1].sold_count
         /\ response.by_category[i].total_profit
              >= response.by_category[i + 1].total_profit

\* a category with a sale at a loss comes before a category without sales
C15_Witness ==
  /\ IsReport
  /\ \E i \in 1..(Len(response.by_category) - 1) :
       /\ response.by_category[i].sold_count
            > response.by_category[i + 1].sold_count
       /\ response.by_category[i].total_profit
            < response.by_category[i + 1].total_profit

(***************************************************************************)
(* Item pages only: creating and editing items                             *)
(***************************************************************************)

\* the submissions whose date_sold comes with the sold mark
SoldConsistentForms ==
  {f \in ValidForms : FormValues[f].date_sold = None \/ FormValues[f].sold}

\* tables in which every row with a date_sold is marked sold
InitLife ==
  /\ \E n \in 0..MaxItems :
       \E fs \in [1..n -> SoldConsistentForms] :
         store = [k \in 1..n |-> item_edit_fields(BlankItem(k), fs[k])]
  /\ request = NoRequest
  /\ response = NoResponse
  /\ pc = "idle"
  /\ frame = NoFrame

NextLife ==
  \/ \E form \in Forms : ItemNew(form)
  \/ \E sku \in Skus, form \in Forms : ItemEdit(sku, form)

SpecLife == InitLife /\ [][NextLife]_vars

\* C16: in every table that item create and item edit requests lead to, an
\* item that has a date_sold is marked sold.
C16_DateSoldOnlyWhenSold ==
  \A it \in Rows(store) : it.date_sold # None => it.sold

SoldCountSum(rows) == SumOver(1..Len(rows), LAMBDA i : rows[i].sold_count)

TotalProfitSum(rows) ==
  SumOver(1..Len(rows), LAMBDA i : rows[i].total_profit)

\* C17: in a report computed over one content of the table, the sold counts
\* of the category rows add up to the KPI sold_items and their total profits
\* to the KPI total_profit, and so do those of the source rows.
C17_RowsPartitionKpis ==
  IsReport =>
    /\ SoldCountSum(response.by_category) = response.kpis.sold_items
    /\ TotalProfitSum(response.by_category) = response.kpis.total_profit
    /\ SoldCountSum(response.by_source) = response.kpis.sold_items
    /\ TotalProfitSum(response.by_source) = response.kpis.total_profit

\* two sales in range, in different categories and from different sources
C17_Witness ==
  /\ IsReport
  /\ ~Unbounded(Lreq)
  /\ response.kpis.sold_items = 2
  /\ response.kpis.total_profit > 0
  /\ Len(response.by_category) = 2
  /\ Len(response.by_source) = 2
  /\ \A i \in 1..2 :
       /\ response.by_category[i].sold_count = 1
       /\ response.by_source[i].sold_count = 1

\* the table after one item was added to it under a sku that was free, built
\* from the fields of the form, every other row as it was
OneItemAdded(form) ==
  \E sku \in (1..(MaxItems + 1)) \ DOMAIN store :
    /\ DOMAIN store' = DOMAIN store \cup {sku}
    /\ store'[sku] = item_edit_fields(BlankItem(sku), form)
    /\ \A k \in DOMAIN store : store'[k] = store[k]

\* C18: a create request with a non-empty item name ends without error and
\* adds exactly one item to the table, built from the fields of the form,
\* under a sku that no item had; the items that were there stay as they
\* were.
C18_CreateAddsItem ==
  [][\A form \in Forms :
       (Strip(form.item_name) # << >> /\ ItemNew(form))
         => (response'.kind = "redirect" /\ OneItemAdded(form))]_vars

====
